---- MODULE Spec2Model ----
(***************************************************************************)
(* A model of collector.py: the concurrent fetch of subscription URLs,     *)
(* the extraction of their "proxies" lists into the shared list            *)
(* merged_proxies, the write and read-back of the YAML file, the           *)
(* concurrent TCP probe of every node and the latency filter.              *)
(*                                                                         *)
(* Python values are tagged records, so that values of different Python    *)
(* types are never compared with each other.  A measured latency is an     *)
(* exact rational number of milliseconds [num, den]; the rounding of       *)
(* Python floats is not modelled.  list.extend and list.append are atomic  *)
(* (they run in C under the interpreter lock, or under the list's own      *)
(* lock in a free-threaded build).  A URL list file is the sequence of its *)
(* characters; a file that exists is taken to be readable.  The tasks of a *)
(* ThreadPoolExecutor leave its work queue first in, first out, and run on *)
(* at most max_workers threads.                                            *)
(***************************************************************************)
EXTENDS Integers, Sequences, FiniteSets, TLC

\* ------------------------------------------------------------- bounds
MaxSources == 2
MaxNodes == 2
MaxFiles == 2

\* ---------------------------------------------------- program constants
LATENCY_THRESHOLD == 30
MIN_LATENCY_THRESHOLD == 1
max_workers == 10
ATTEMPTS == 3

VARIABLES
  pc,              \* where the coordinating thread is
  url_files,       \* the files process_urls is given: on disk or not, their text
  urls,            \* the list process_urls builds from their lines
  responses,       \* per URL of the list: what the remote endpoint answers
  requests,        \* history: per URL, the requests.get calls made for it
  ftask,           \* per URL: state of its fetch_and_process_url future
  merged_proxies,  \* the global list process_clash extends
  origin,          \* history: per item of merged_proxies, its source and position
  file,            \* MERGED_PROXIES_FILE on disk
  saveFailed,      \* history: a save_yaml of this run raised and was logged
  log,             \* history: save_yaml calls made, "No proxies found" warned
  proxies,         \* the list main hands to check_proxies_availability
  cursor,          \* next element the dict comprehension looks at
  ptask,           \* per node: state of its tcp_connection_test future
  result,          \* per node: what its future holds once it is done
  connects,        \* history: per node, connect_ex calls made for it
  probes,          \* history: per node, runs of tcp_connection_test for it
  rerun,           \* a second call on the same list and probe results, if any
  available_proxies, \* indices into proxies, in the order they were appended
  tcp_in,          \* a direct call of tcp_connection_test: its arguments
  tcp_out          \* ... and what it returned

vars == <<pc, url_files, urls, responses, requests, ftask, merged_proxies,
          origin, file, saveFailed, log, proxies, cursor, ptask, result,
          connects, probes, rerun, available_proxies, tcp_in, tcp_out>>

fetchVars == <<url_files, urls, responses, requests, ftask, merged_proxies, origin>>
mainVars == <<file, saveFailed, log>>
probeVars == <<proxies, cursor, ptask, result, connects, probes, rerun,
               available_proxies>>
tcpVars == <<tcp_in, tcp_out>>

\* ------------------------------------------------------ Python values
PyNone == [t |-> "none"]
PyStr(s) == [t |-> "str", s |-> s]
PyChars(cs) == [t |-> "chars", cs |-> cs]
PyInt(n) == [t |-> "int", n |-> n]
Absent == [t |-> "absent"]

\* bool(v) of a scalar.  A Python str is PyStr (an opaque TLA+ string) where only
\* its identity matters and PyChars (its characters) where it is parsed.
Truthy(v) ==
  CASE v.t = "absent" -> FALSE
    [] v.t = "none" -> FALSE
    [] v.t = "int" -> v.n # 0
    [] v.t = "str" -> v.s # ""
    [] v.t = "chars" -> v.cs # <<>>

\* dict.get(key) and dict.get(key, default) on a field that may be absent
Get(v) == IF v.t = "absent" THEN PyNone ELSE v
GetDefault(v, d) == IF v.t = "absent" THEN d ELSE v

\* A mapping of the "proxies" list.  extra stands for every pass-through field.
Node(name, server, port, type, extra) ==
  [kind |-> "map", name |-> name, server |-> server, port |-> port,
   type |-> type, extra |-> extra]
\* An element that is no mapping: a character of a string, a key of a mapping
StrItem(c) == [kind |-> "str", ch |-> c]

Digits == <<"0", "1", "2", "3", "4", "5", "6", "7", "8", "9">>
IsDigit(c) == \E d \in 1..10 : Digits[d] = c
DigitVal(c) == (CHOOSE d \in 1..10 : Digits[d] = c) - 1

RECURSIVE ParseDigits(_, _)
ParseDigits(s, acc) ==
  IF s = <<>> THEN acc ELSE ParseDigits(Tail(s), 10 * acc + DigitVal(Head(s)))

\* int(x): [ok, n].  ok = FALSE stands for the ValueError or TypeError raised.
\* Of the strings int() accepts, plain digit strings are modelled.
IntOf(v) ==
  CASE v.t = "int" -> [ok |-> TRUE, n |-> v.n]
    [] v.t = "chars" ->
         IF v.cs # <<>> /\ \A k \in 1..Len(v.cs) : IsDigit(v.cs[k])
         THEN [ok |-> TRUE, n |-> ParseDigits(v.cs, 0)]
         ELSE [ok |-> FALSE, n |-> 0]
    [] OTHER -> [ok |-> FALSE, n |-> 0]

\* str.lower() on the protocol tags of the model
Lower(s) ==
  CASE s = "WireGuard" -> "wireguard"
    [] s = "Hysteria2" -> "hysteria2"
    [] s = "TUIC" -> "tuic"
    [] s = "SS" -> "ss"
    [] OTHER -> s

skip_protocols == {"hysteria", "hysteria2", "hy2", "tuic", "wireguard", "juicity"}

\* ------------------------------------------------------------ rationals
Rat(n, d) == [num |-> n, den |-> d]
RatAdd(a, b) == Rat(a.num * b.den + b.num * a.den, a.den * b.den)
RatDivInt(a, k) == Rat(a.num, a.den * k)
RatLeq(a, b) == a.num * b.den <= b.num * a.den

\* ------------------------------------------------ the inputs of the model
nFast == Node(PyStr("fast"), PyStr("a.example"), PyInt(443), PyStr("ss"), PyStr("aes"))
nStrPort == Node(PyStr("strport"), PyStr("b.example"), PyChars(<<"8", "0">>), PyStr("vmess"), PyStr("auto"))
nWireguard == Node(PyStr("wg"), PyStr("c.example"), PyInt(51820), PyStr("wireguard"), PyStr("key"))
nNoServer == Node(PyStr("noserver"), Absent, PyInt(443), PyStr("ss"), PyStr("aes"))
nNoPort == Node(Absent, PyStr("d.example"), Absent, PyStr("trojan"), Absent)
nBadPort == Node(PyStr("badport"), PyStr("e.example"), PyChars(<<"a", "b">>), PyStr("ss"), PyStr("aes"))
nNoType == Node(PyStr("notype"), PyStr("f.example"), PyInt(8443), Absent, Absent)
nNullType == Node(PyStr("nulltype"), PyStr("g.example"), PyInt(1080), PyNone, Absent)
nUpperSkip == Node(PyStr("WG"), PyStr("h.example"), PyInt(51820), PyStr("WireGuard"), Absent)
nZeroPort == Node(PyStr("zero"), PyStr("i.example"), PyInt(0), PyStr("ss"), Absent)

\* The "proxies" value of a decoded document
PList(items) == [t |-> "list", items |-> items]
PString(items) == [t |-> "str", items |-> items]
PDict(keys) == [t |-> "dict", items |-> keys]

\* What requests.get(url) does and, when it returns, what yaml.safe_load makes of
\* the text: fetch is "ok", "request_exception" (connection error, HTTP error
\* status) or "other_exception"; yaml is "error" (YAMLError), "other" (a
\* document that is no mapping: a scalar, a list, nothing) or "map".
FailedFetch(how) == [fetch |-> how, yaml |-> "none", proxies |-> Absent]
Undecodable == [fetch |-> "ok", yaml |-> "error", proxies |-> Absent]
NotAMapping == [fetch |-> "ok", yaml |-> "other", proxies |-> Absent]
Document(p) == [fetch |-> "ok", yaml |-> "map", proxies |-> p]

ResponseTable ==
  << FailedFetch("request_exception"),
     FailedFetch("other_exception"),
     Undecodable,
     NotAMapping,
     Document(Absent),
     Document(PList(<<>>)),
     Document(PyNone),
     Document(PyInt(7)),
     Document(PString(<<StrItem("a"), StrItem("b")>>)),
     Document(PDict(<<StrItem("name"), StrItem("server")>>)),
     Document(PList(<<nFast>>)),
     Document(PList(<<nStrPort, nWireguard>>)),
     Document(PList(<<nBadPort, nFast>>)),
     Document(PList(<<nNoServer>>)) >>

\* ------------------------------------------------- process_clash
\* The items process_clash appends for one fetched text, and what it logs.
process_clash(r) ==
  IF r.yaml = "error" THEN [append |-> <<>>, log |-> "error"]
  ELSE IF r.yaml # "map" THEN [append |-> <<>>, log |-> "error"]
  ELSE LET p == GetDefault(r.proxies, PList(<<>>)) IN
    CASE p.t \in {"list", "str", "dict"} ->
           IF p.items # <<>> THEN [append |-> p.items, log |-> "none"]
           ELSE [append |-> <<>>, log |-> "warning"]
      [] p.t = "int" ->
           IF p.n # 0 THEN [append |-> <<>>, log |-> "error"]
           ELSE [append |-> <<>>, log |-> "warning"]
      [] OTHER -> [append |-> <<>>, log |-> "warning"]

\* mutant of Extend: the items go in around what other tasks have appended
ExtendInterleaved(list, items) ==
  IF items = <<>> THEN list ELSE <<Head(items)>> \o list \o Tail(items)

\* list.extend: one atomic step on the shared list
Extend(list, items) == list \o items

\* fetch_and_process_url: the state its future ends in and the items appended
fetch_and_process_url(r) ==
  CASE r.fetch = "request_exception" -> [state |-> "done", append |-> <<>>]
    [] r.fetch = "other_exception" -> [state |-> "raised", append |-> <<>>]
    [] OTHER -> [state |-> "done", append |-> process_clash(r).append]

\* ------------------------------------------------- ThreadPoolExecutor
Running(tasks) == {i \in DOMAIN tasks : tasks[i] = "running"}

\* mutant of WorkerFree: the pool starts a thread for every task
WorkerAlwaysFree(tasks) == TRUE

\* ThreadPoolExecutor(max_workers=10): a task leaves the work queue only when
\* one of the at most max_workers threads is idle
WorkerFree(tasks) == Cardinality(Running(tasks)) < max_workers

\* the work queue is first in, first out: task i is at its head
HeadOfQueue(tasks, i) ==
  /\ tasks[i] = "queued"
  /\ \A j \in DOMAIN tasks : j < i => tasks[j] # "queued"

\* ------------------------------------------------- the URL list files
\* A text is the sequence of its characters.
NL == "\n"
Whitespace == {" ", "\t", NL}

FileMissing == [exists |-> FALSE, text |-> <<>>]
FileOf(text) == [exists |-> TRUE, text |-> text]

\* str.splitlines() of a text whose only line ends are "\n"
RECURSIVE SplitFrom(_, _, _)
SplitFrom(text, cur, lines) ==
  IF text = <<>> THEN (IF cur = <<>> THEN lines ELSE Append(lines, cur))
  ELSE IF Head(text) = NL THEN SplitFrom(Tail(text), <<>>, Append(lines, cur))
  ELSE SplitFrom(Tail(text), Append(cur, Head(text)), lines)

splitlines(text) == SplitFrom(text, <<>>, <<>>)

RECURSIVE lstrip(_)
lstrip(s) == IF s # <<>> /\ Head(s) \in Whitespace THEN lstrip(Tail(s)) ELSE s

RECURSIVE rstrip(_)
rstrip(s) ==
  IF s # <<>> /\ s[Len(s)] \in Whitespace THEN rstrip(SubSeq(s, 1, Len(s) - 1))
  ELSE s

\* str.strip() and str.startswith(c)
strip(s) == rstrip(lstrip(s))
startswith(s, c) == s # <<>> /\ Head(s) = c

\* mutant of ReadLines: the loop over the files ends at the first missing one
RECURSIVE ReadLinesUntilMissing(_)
ReadLinesUntilMissing(files) ==
  IF files = <<>> THEN <<>>
  ELSE IF ~Head(files).exists THEN <<>>
  ELSE splitlines(Head(files).text) \o ReadLinesUntilMissing(Tail(files))

\* for url_file in url_files: a file that does not exist is logged and passed
\* over, the lines of one that exists are added to urls.  Reading a file that
\* exists is taken to succeed.
RECURSIVE ReadLines(_)
ReadLines(files) ==
  IF files = <<>> THEN <<>>
  ELSE IF ~Head(files).exists THEN ReadLines(Tail(files))
  ELSE splitlines(Head(files).text) \o ReadLines(Tail(files))

\* the condition of the list comprehension: startswith looks at the line as
\* it was read, not at the stripped line
KeepLine(url) == strip(url) # <<>> /\ ~startswith(url, "#")

\* urls = [url.strip() for url in urls if url.strip() and not url.startswith('#')]
StripLines(lines) ==
  LET kept == SelectSeq(lines, KeepLine) IN [k \in 1..Len(kept) |-> strip(kept[k])]

\* ------------------------------------------------- process_urls
\* the files are read and the list of URLs is made
ReadFiles ==
  /\ pc = "start"
  /\ urls' = StripLines(ReadLines(url_files))
  /\ pc' = "listed"
  /\ UNCHANGED <<url_files, responses, requests, ftask, merged_proxies, origin>>
  /\ UNCHANGED <<mainVars, probeVars, tcpVars>>

\* executor.submit for every URL of the list
SubmitFetches ==
  /\ pc = "listed"
  /\ ftask' = [i \in 1..Len(urls) |-> "queued"]
  /\ requests' = [i \in 1..Len(urls) |-> 0]
  /\ pc' = "fetching"
  /\ UNCHANGED <<url_files, urls, responses, merged_proxies, origin, mainVars>>
  /\ UNCHANGED <<probeVars, tcpVars>>

\* a worker of the pool takes the task at the head of the queue and sends the
\* request: the one requests.get of fetch_and_process_url
FetchStart(i) ==
  /\ HeadOfQueue(ftask, i)
  /\ WorkerFree(ftask)
  /\ ftask' = [ftask EXCEPT ![i] = "running"]
  /\ requests' = [requests EXCEPT ![i] = @ + 1]
  /\ UNCHANGED <<pc, url_files, urls, responses, merged_proxies, origin>>
  /\ UNCHANGED mainVars
  /\ UNCHANGED <<probeVars, tcpVars>>

\* mutant of FetchFinish: a request that failed is sent a second time
FetchFinishRetrying(i) ==
  /\ ftask[i] = "running"
  /\ IF responses[i].fetch = "request_exception" /\ requests[i] < 2
     THEN /\ ftask' = [ftask EXCEPT ![i] = "queued"]
          /\ UNCHANGED <<merged_proxies, origin>>
     ELSE LET out == fetch_and_process_url(responses[i]) IN
            /\ ftask' = [ftask EXCEPT ![i] = out.state]
            /\ merged_proxies' = Extend(merged_proxies, out.append)
            /\ origin' = Extend(origin, [k \in 1..Len(out.append) |-> [src |-> i, pos |-> k]])
  /\ UNCHANGED <<pc, url_files, urls, responses, requests, mainVars>>
  /\ UNCHANGED <<probeVars, tcpVars>>

\* the request returns and the rest of fetch_and_process_url runs
FetchFinish(i) ==
  /\ ftask[i] = "running"
  /\ LET out == fetch_and_process_url(responses[i]) IN
       /\ ftask' = [ftask EXCEPT ![i] = out.state]
       /\ merged_proxies' = Extend(merged_proxies, out.append)
       /\ origin' = Extend(origin, [k \in 1..Len(out.append) |-> [src |-> i, pos |-> k]])
  /\ UNCHANGED <<pc, url_files, urls, responses, requests, mainVars>>
  /\ UNCHANGED <<probeVars, tcpVars>>

\* mutant of FetchJoin: process_urls returns without waiting for its tasks
FetchJoinEarly ==
  /\ pc = "fetching"
  /\ pc' = "fetched"
  /\ UNCHANGED <<fetchVars, mainVars, probeVars, tcpVars>>

\* the as_completed loop has seen every future (an exception a future holds is
\* logged) and the pool is shut down: process_urls returns
FetchJoin ==
  /\ pc = "fetching"
  /\ \A i \in DOMAIN ftask : ftask[i] \in {"done", "raised"}
  /\ pc' = "fetched"
  /\ UNCHANGED <<fetchVars, mainVars, probeVars, tcpVars>>

NextFetch ==
  \/ ReadFiles
  \/ SubmitFetches
  \/ \E i \in DOMAIN ftask : FetchStart(i)
  \/ \E i \in DOMAIN ftask : FetchFinish(i)
  \/ FetchJoin

NoFile == [state |-> "absent", proxies |-> <<>>]
NoCall == [called |-> FALSE]
NoLog == [saves |-> 0, warned |-> FALSE]
NoRerun == [on |-> FALSE]

\* Two list files, the first of them missing, the second with n URLs
UrlLines(n) == [k \in 1..(2 * n) |-> IF k % 2 = 1 THEN "u" ELSE NL]
FilesWith(n) == <<FileMissing, FileOf(UrlLines(n))>>

\* process_urls on any list of at most MaxSources URLs, each answered in one of
\* the ways of ResponseTable
InitFetch ==
  /\ pc = "start"
  /\ \E n \in 0..MaxSources : \E f \in [1..n -> 1..Len(ResponseTable)] :
       /\ url_files = FilesWith(n)
       /\ responses = [i \in 1..n |-> ResponseTable[f[i]]]
  /\ urls = <<>>
  /\ requests = <<>>
  /\ ftask = <<>>
  /\ merged_proxies = <<>>
  /\ origin = <<>>
  /\ file = NoFile
  /\ saveFailed = FALSE
  /\ log = NoLog
  /\ proxies = <<>>
  /\ cursor = 1
  /\ ptask = <<>>
  /\ result = <<>>
  /\ connects = <<>>
  /\ probes = <<>>
  /\ rerun = NoRerun
  /\ available_proxies = <<>>
  /\ tcp_in = NoCall
  /\ tcp_out = NoCall

SpecFetch == InitFetch /\ [][NextFetch]_vars

\* The list files of the model: a missing file; two URLs around a comment and
\* a blank line; a URL between spaces; a comment after a space; an empty file;
\* a line of spaces and a last line without a line end
FileTable ==
  << FileMissing,
     FileOf(<<"u", NL, "#", "c", NL, NL, "v", NL>>),
     FileOf(<<" ", "w", " ", NL>>),
     FileOf(<<" ", "#", "x", NL>>),
     FileOf(<<>>),
     FileOf(<<" ", " ", NL, "u">>) >>

\* process_urls on any list of 1..MaxFiles files of FileTable; every request
\* fails
InitLoad ==
  /\ pc = "start"
  /\ \E n \in 1..MaxFiles : \E f \in [1..n -> 1..Len(FileTable)] :
       url_files = [i \in 1..n |-> FileTable[f[i]]]
  /\ responses = [i \in 1..Len(StripLines(ReadLines(url_files))) |->
                    FailedFetch("request_exception")]
  /\ urls = <<>>
  /\ requests = <<>>
  /\ ftask = <<>>
  /\ merged_proxies = <<>>
  /\ origin = <<>>
  /\ file = NoFile
  /\ saveFailed = FALSE
  /\ log = NoLog
  /\ proxies = <<>>
  /\ cursor = 1
  /\ ptask = <<>>
  /\ result = <<>>
  /\ connects = <<>>
  /\ probes = <<>>
  /\ rerun = NoRerun
  /\ available_proxies = <<>>
  /\ tcp_in = NoCall
  /\ tcp_out = NoCall

SpecLoad == InitLoad /\ [][NextFetch]_vars

\* ------------------------------------------------- tcp_connection_test
\* One pass of the loop body: a socket is made, connect_ex is called and
\*   "ok"      returns 0 after lat milliseconds,
\*   "refused" returns an error code (refused, timed out, unreachable),
\*   "exc"     raises (the name does not resolve, the port is out of range),
\*             which the except inside the loop logs.
\* Making the socket is taken to succeed.
Connected(lat) == [res |-> "ok", lat |-> lat]
Refused == [res |-> "refused", lat |-> Rat(0, 1)]
ConnectRaised == [res |-> "exc", lat |-> Rat(0, 1)]

NoLatency == [some |-> FALSE, val |-> Rat(0, 1)]
Latency(r) == [some |-> TRUE, val |-> r]

\* for _ in range(3): the samples appended and the connect_ex calls made
RECURSIVE ConnectLoop(_, _, _, _)
ConnectLoop(k, outs, latencies, n) ==
  IF k > ATTEMPTS THEN [latencies |-> latencies, connects |-> n]
  ELSE ConnectLoop(k + 1, outs,
                   IF outs[k].res = "ok" THEN Append(latencies, outs[k].lat)
                   ELSE latencies,
                   n + 1)

\* sum(latencies), which starts from the integer 0
RECURSIVE Sum(_)
Sum(latencies) ==
  IF latencies = <<>> THEN Rat(0, 1)
  ELSE RatAdd(Sum(SubSeq(latencies, 1, Len(latencies) - 1)),
              latencies[Len(latencies)])

\* mutant of SkipProtocol: wireguard is missing from the set
SkipProtocolNoWireguard(proto) == Lower(proto.s) \in skip_protocols \ {"wireguard"}

\* proto.lower() in skip_protocols; proto is a str here
SkipProtocol(proto) == Lower(proto.s) \in skip_protocols

\* mutant of tcp_connection_test: the sum is divided by the number of attempts,
\* not by the number of samples
tcp_connection_test_mean_of_attempts(proto, outs) ==
  IF proto.t # "str"
  THEN [raised |-> TRUE, avail |-> FALSE, latency |-> NoLatency, connects |-> 0]
  ELSE IF Lower(proto.s) \in skip_protocols
  THEN [raised |-> FALSE, avail |-> FALSE, latency |-> NoLatency, connects |-> 0]
  ELSE LET loop == ConnectLoop(1, outs, <<>>, 0) IN
    IF loop.latencies # <<>>
    THEN [raised |-> FALSE, avail |-> TRUE,
          latency |-> Latency(RatDivInt(Sum(loop.latencies), ATTEMPTS)),
          connects |-> loop.connects]
    ELSE [raised |-> FALSE, avail |-> FALSE, latency |-> NoLatency,
          connects |-> loop.connects]

\* tcp_connection_test(server, port, proto, timeout) when the three passes of its
\* loop go as outs says.  raised: proto is no str and proto.lower() raises.
tcp_connection_test(proto, outs) ==
  IF proto.t # "str"
  THEN [raised |-> TRUE, avail |-> FALSE, latency |-> NoLatency, connects |-> 0]
  ELSE IF SkipProtocol(proto)
  THEN [raised |-> FALSE, avail |-> FALSE, latency |-> NoLatency, connects |-> 0]
  ELSE LET loop == ConnectLoop(1, outs, <<>>, 0) IN
    IF loop.latencies # <<>>
    THEN [raised |-> FALSE, avail |-> TRUE,
          latency |-> Latency(RatDivInt(Sum(loop.latencies), Len(loop.latencies))),
          connects |-> loop.connects]
    ELSE [raised |-> FALSE, avail |-> FALSE, latency |-> NoLatency,
          connects |-> loop.connects]

\* How the three passes go for one node of a probe phase
Scenarios ==
  << <<Refused, Refused, ConnectRaised>>,
     <<Connected(Rat(9, 10)), Refused, ConnectRaised>>,
     <<Connected(Rat(1, 1)), Connected(Rat(1, 1)), Connected(Rat(1, 1))>>,
     <<Refused, Connected(Rat(30, 1)), Refused>>,
     <<Connected(Rat(301, 10)), Connected(Rat(301, 10)), Refused>>,
     <<Connected(Rat(5, 1)), Connected(Rat(40, 1)), Refused>> >>

\* ------------------------------------------------- check_proxies_availability
NoResult == [raised |-> FALSE, avail |-> FALSE, latency |-> NoLatency]

\* mutant of Eligible: only the port is looked at
EligiblePortOnly(p) == Truthy(Get(p.port))

\* if proxy.get("server") and proxy.get("port")
Eligible(p) == Truthy(Get(p.server)) /\ Truthy(Get(p.port))

\* mutant of InWindow: the ends of the window are excluded
InWindowOpen(r) ==
  /\ r.avail
  /\ ~RatLeq(Rat(LATENCY_THRESHOLD, 1), r.latency.val)
  /\ ~RatLeq(r.latency.val, Rat(MIN_LATENCY_THRESHOLD, 1))

\* is_available and LATENCY_THRESHOLD >= latency >= MIN_LATENCY_THRESHOLD
InWindow(r) ==
  /\ r.avail
  /\ RatLeq(r.latency.val, Rat(LATENCY_THRESHOLD, 1))
  /\ RatLeq(Rat(MIN_LATENCY_THRESHOLD, 1), r.latency.val)

\* One element of the dict comprehension: proxy.get on an element that is no
\* mapping raises, the if clause skips the element, int(port) raises, or the
\* task is submitted.  An exception leaves the with block, which waits for the
\* tasks submitted so far before the exception goes on.
SubmitStep ==
  /\ pc = "submitting"
  /\ cursor <= Len(proxies)
  /\ LET p == proxies[cursor]
         next == IF cursor = Len(proxies) THEN "collecting" ELSE "submitting"
     IN
       IF p.kind # "map"
       THEN pc' = "unwinding" /\ UNCHANGED <<cursor, ptask>>
       ELSE IF ~Eligible(p)
       THEN pc' = next /\ cursor' = cursor + 1 /\ UNCHANGED ptask
       ELSE IF ~IntOf(Get(p.port)).ok
       THEN pc' = "unwinding" /\ UNCHANGED <<cursor, ptask>>
       ELSE /\ pc' = next
            /\ cursor' = cursor + 1
            /\ ptask' = [ptask EXCEPT ![cursor] = "queued"]
  /\ UNCHANGED <<proxies, result, connects, probes, rerun, available_proxies>>
  /\ UNCHANGED <<fetchVars, mainVars, tcpVars>>

\* a worker of the pool takes a queued probe
ProbeStart(i) ==
  /\ pc \in {"submitting", "collecting", "unwinding"}
  /\ HeadOfQueue(ptask, i)
  /\ WorkerFree(ptask)
  /\ ptask' = [ptask EXCEPT ![i] = "running"]
  /\ probes' = [probes EXCEPT ![i] = @ + 1]
  /\ UNCHANGED <<pc, proxies, cursor, result, connects, rerun>>
  /\ UNCHANGED available_proxies
  /\ UNCHANGED <<fetchVars, mainVars, tcpVars>>

\* tcp_connection_test runs for node i and its future is done.  In a second
\* call on the same probe results the node measures what it measured before.
ProbeFinish(i) ==
  /\ pc \in {"submitting", "collecting", "unwinding"}
  /\ ptask[i] = "running"
  /\ \E s \in 1..Len(Scenarios) :
       LET r == tcp_connection_test(GetDefault(proxies[i].type, PyStr("tcp")),
                                    Scenarios[s])
           res == [raised |-> r.raised, avail |-> r.avail, latency |-> r.latency]
       IN /\ rerun.on => res = rerun.expected[i]
          /\ result' = [result EXCEPT ![i] = res]
          /\ connects' = [connects EXCEPT ![i] = r.connects]
  /\ ptask' = [ptask EXCEPT ![i] = "done"]
  /\ UNCHANGED <<pc, proxies, cursor, probes, rerun, available_proxies>>
  /\ UNCHANGED <<fetchVars, mainVars, tcpVars>>

\* mutant of Collect: the measured latency is stored in the node that is kept
CollectAnnotating(i) ==
  /\ pc = "collecting"
  /\ ptask[i] = "done"
  /\ ptask' = [ptask EXCEPT ![i] = "collected"]
  /\ IF ~result[i].raised /\ InWindow(result[i])
     THEN /\ available_proxies' = Append(available_proxies, i)
          /\ proxies' = [proxies EXCEPT ![i].extra = PyStr("latency")]
     ELSE UNCHANGED <<available_proxies, proxies>>
  /\ UNCHANGED <<pc, cursor, result, connects, probes, rerun>>
  /\ UNCHANGED <<fetchVars, mainVars, tcpVars>>

\* one pass of the as_completed loop: a done future, in no particular order.
\* The node appended is the element of the list itself; it is named by its
\* index.
Collect(i) ==
  /\ pc = "collecting"
  /\ ptask[i] = "done"
  /\ ptask' = [ptask EXCEPT ![i] = "collected"]
  /\ available_proxies' =
       IF ~result[i].raised /\ InWindow(result[i])
       THEN Append(available_proxies, i)
       ELSE available_proxies
  /\ UNCHANGED <<pc, proxies, cursor, result, connects, probes, rerun>>
  /\ UNCHANGED <<fetchVars, mainVars, tcpVars>>

\* return available_proxies
ProbeReturn ==
  /\ pc = "collecting"
  /\ \A i \in DOMAIN ptask : ptask[i] \in {"none", "collected"}
  /\ pc' = "returned"
  /\ UNCHANGED <<fetchVars, mainVars, probeVars, tcpVars>>

\* the pool is shut down and the exception leaves check_proxies_availability
ProbeRaise ==
  /\ pc = "unwinding"
  /\ \A i \in DOMAIN ptask : ptask[i] \in {"none", "done"}
  /\ pc' = "raised"
  /\ UNCHANGED <<fetchVars, mainVars, probeVars, tcpVars>>

NextProbe ==
  \/ SubmitStep
  \/ \E i \in DOMAIN ptask : ProbeStart(i)
  \/ \E i \in DOMAIN ptask : ProbeFinish(i)
  \/ \E i \in DOMAIN ptask : Collect(i)
  \/ ProbeReturn
  \/ ProbeRaise

ProbeTable ==
  << nFast, nStrPort, nWireguard, nNoServer, nNoPort, nBadPort, nNoType,
     nNullType, nUpperSkip, nZeroPort, StrItem("a") >>

\* the state at the call of check_proxies_availability(list)
Called(list) ==
  [proxies |-> list,
   cursor |-> 1,
   ptask |-> [i \in 1..Len(list) |-> "none"],
   result |-> [i \in 1..Len(list) |-> NoResult],
   connects |-> [i \in 1..Len(list) |-> 0],
   probes |-> [i \in 1..Len(list) |-> 0],
   available_proxies |-> <<>>]

\* check_proxies_availability on any list of 1..MaxNodes elements of ProbeTable
InitProbe ==
  /\ pc = "submitting"
  /\ \E n \in 1..MaxNodes : \E f \in [1..n -> 1..Len(ProbeTable)] :
       LET call == Called([i \in 1..n |-> ProbeTable[f[i]]]) IN
         /\ proxies = call.proxies
         /\ cursor = call.cursor
         /\ ptask = call.ptask
         /\ result = call.result
         /\ connects = call.connects
         /\ probes = call.probes
         /\ available_proxies = call.available_proxies
  /\ rerun = NoRerun
  /\ url_files = <<>>
  /\ urls = <<>>
  /\ responses = <<>>
  /\ requests = <<>>
  /\ ftask = <<>>
  /\ merged_proxies = <<>>
  /\ origin = <<>>
  /\ file = NoFile
  /\ saveFailed = FALSE
  /\ log = NoLog
  /\ tcp_in = NoCall
  /\ tcp_out = NoCall

SpecProbe == InitProbe /\ [][NextProbe]_vars

\* check_proxies_availability is called a second time on the list it was given,
\* and every node is to measure what it measured in the first call
CallAgain ==
  /\ pc = "returned"
  /\ ~rerun.on
  /\ rerun' = [on |-> TRUE, first |-> available_proxies, expected |-> result]
  /\ LET call == Called(proxies) IN
       /\ cursor' = call.cursor
       /\ ptask' = call.ptask
       /\ result' = call.result
       /\ connects' = call.connects
       /\ probes' = call.probes
       /\ available_proxies' = call.available_proxies
  /\ pc' = "submitting"
  /\ UNCHANGED <<proxies, fetchVars, mainVars, tcpVars>>

NextTwice ==
  \/ NextProbe
  \/ CallAgain

SpecTwice == InitProbe /\ [][NextTwice]_vars

\* ------------------------------------------------- more tasks than workers
PoolTasks == max_workers + 1

\* process_urls on one file of PoolTasks URLs whose requests all fail, or
\* check_proxies_availability on PoolTasks nodes of a protocol that is not
\* probed, or on that list followed by an element that is no mapping
InitPool ==
  /\ \/ /\ pc = "start"
        /\ url_files = <<FileOf(UrlLines(PoolTasks))>>
        /\ responses = [i \in 1..PoolTasks |-> FailedFetch("request_exception")]
        /\ proxies = <<>>
        /\ cursor = 1
        /\ ptask = <<>>
        /\ result = <<>>
        /\ connects = <<>>
        /\ probes = <<>>
     \/ /\ pc = "submitting"
        /\ url_files = <<>>
        /\ responses = <<>>
        /\ \E list \in {[i \in 1..PoolTasks |-> nWireguard],
                         [i \in 1..PoolTasks |-> nWireguard] \o <<StrItem("a")>>} :
             LET call == Called(list) IN
               /\ proxies = call.proxies
               /\ cursor = call.cursor
               /\ ptask = call.ptask
               /\ result = call.result
               /\ connects = call.connects
               /\ probes = call.probes
  /\ available_proxies = <<>>
  /\ rerun = NoRerun
  /\ urls = <<>>
  /\ requests = <<>>
  /\ ftask = <<>>
  /\ merged_proxies = <<>>
  /\ origin = <<>>
  /\ file = NoFile
  /\ saveFailed = FALSE
  /\ log = NoLog
  /\ tcp_in = NoCall
  /\ tcp_out = NoCall

NextPool ==
  \/ NextFetch
  \/ NextProbe

SpecPool == InitPool /\ [][NextPool]_vars

\* ------------------------------------------------- a call of tcp_connection_test
Protocols == {"ss", "tcp", "SS", "wireguard", "WireGuard", "hy2"}
Samples == {Rat(9, 10), Rat(1, 1), Rat(30, 1), Rat(301, 10)}
Outcomes == {Refused, ConnectRaised} \cup {Connected(l) : l \in Samples}

TcpCall ==
  /\ pc = "tcp_call"
  /\ LET r == tcp_connection_test(PyStr(tcp_in.proto), tcp_in.outs) IN
       tcp_out' = [called |-> TRUE, raised |-> r.raised, avail |-> r.avail,
                   latency |-> r.latency, connects |-> r.connects]
  /\ pc' = "tcp_returned"
  /\ UNCHANGED <<fetchVars, mainVars, probeVars, tcp_in>>

NextTcp == TcpCall

\* tcp_connection_test for any protocol tag and any three outcomes
InitTcp ==
  /\ pc = "tcp_call"
  /\ \E proto \in Protocols : \E outs \in [1..ATTEMPTS -> Outcomes] :
       tcp_in = [called |-> TRUE, proto |-> proto, outs |-> outs]
  /\ tcp_out = NoCall
  /\ url_files = <<>>
  /\ urls = <<>>
  /\ responses = <<>>
  /\ requests = <<>>
  /\ ftask = <<>>
  /\ merged_proxies = <<>>
  /\ origin = <<>>
  /\ file = NoFile
  /\ saveFailed = FALSE
  /\ log = NoLog
  /\ proxies = <<>>
  /\ cursor = 1
  /\ ptask = <<>>
  /\ result = <<>>
  /\ connects = <<>>
  /\ probes = <<>>
  /\ rerun = NoRerun
  /\ available_proxies = <<>>

SpecTcp == InitTcp /\ [][NextTcp]_vars

\* ------------------------------------------------- save_yaml, load_yaml, main
YamlDoc(data) == [state |-> "doc", proxies |-> data]

\* The file after save_yaml(MERGED_PROXIES_FILE, data).  how is
\*   "ok"           the document {'proxies': data} is written,
\*   "open_failed"  open(..., 'w') raises: the file is as it was,
\*   "write_failed" open has emptied the file and yaml.dump raises after it
\*                  has written keep elements of data (keep = -1: nothing that
\*                  parses).
\* Every exception is logged and swallowed.
save_yaml(old, data, how, keep) ==
  CASE how = "ok" -> YamlDoc(data)
    [] how = "open_failed" -> old
    [] how = "write_failed" ->
         IF keep < 0 THEN [state |-> "garbage", proxies |-> <<>>]
         ELSE IF keep = 0 THEN [state |-> "empty", proxies |-> <<>>]
         ELSE YamlDoc(SubSeq(data, 1, keep))

SaveOutcomes == {"ok", "open_failed", "write_failed"}
\* how much of data a failed write can leave behind
Keeps(data) == -1..(IF data = <<>> THEN 0 ELSE Len(data) - 1)

\* load_yaml(path).get("proxies", []):  raised is the AttributeError of
\* None.get when the file is empty; a missing or unparseable file gives {}.
load_yaml_proxies(f) ==
  CASE f.state = "doc" -> [raised |-> FALSE, proxies |-> f.proxies]
    [] f.state = "empty" -> [raised |-> TRUE, proxies |-> <<>>]
    [] OTHER -> [raised |-> FALSE, proxies |-> <<>>]

\* save_yaml(MERGED_PROXIES_FILE, merged_proxies)
SaveMerged ==
  /\ pc = "fetched"
  /\ \E how \in SaveOutcomes : \E keep \in Keeps(merged_proxies) :
       /\ file' = save_yaml(file, merged_proxies, how, keep)
       /\ saveFailed' = (saveFailed \/ how # "ok")
  /\ log' = [log EXCEPT !.saves = @ + 1]
  /\ pc' = "load"
  /\ UNCHANGED <<fetchVars, probeVars, tcpVars>>

\* proxies = load_yaml(...).get("proxies", []) and the if that follows
LoadMerged ==
  /\ pc = "load"
  /\ LET got == load_yaml_proxies(file) IN
       IF got.raised THEN pc' = "crashed" /\ UNCHANGED <<probeVars, log>>
       ELSE IF got.proxies # <<>>
       THEN LET call == Called(got.proxies) IN
              /\ pc' = "submitting"
              /\ proxies' = call.proxies
              /\ cursor' = call.cursor
              /\ ptask' = call.ptask
              /\ result' = call.result
              /\ connects' = call.connects
              /\ probes' = call.probes
              /\ available_proxies' = call.available_proxies
              /\ UNCHANGED <<rerun, log>>
       ELSE /\ pc' = "done"
            /\ log' = [log EXCEPT !.warned = TRUE]
            /\ UNCHANGED probeVars
  /\ UNCHANGED <<fetchVars, file, saveFailed, tcpVars>>

\* save_yaml(MERGED_PROXIES_FILE, available_proxies) and the end of main
SaveAvailable ==
  /\ pc = "returned"
  /\ LET data == [k \in 1..Len(available_proxies) |-> proxies[available_proxies[k]]] IN
       \E how \in SaveOutcomes : \E keep \in Keeps(data) :
         /\ file' = save_yaml(file, data, how, keep)
         /\ saveFailed' = (saveFailed \/ how # "ok")
  /\ log' = [log EXCEPT !.saves = @ + 1]
  /\ pc' = "done"
  /\ UNCHANGED <<fetchVars, probeVars, tcpVars>>

\* the exception of check_proxies_availability ends main
MainRaise ==
  /\ pc = "raised"
  /\ pc' = "crashed"
  /\ UNCHANGED <<fetchVars, mainVars, probeVars, tcpVars>>

Next ==
  \/ NextFetch
  \/ SaveMerged
  \/ LoadMerged
  \/ NextProbe
  \/ SaveAvailable
  \/ MainRaise

MainTable ==
  << FailedFetch("request_exception"),
     Undecodable,
     Document(PString(<<StrItem("a"), StrItem("b")>>)),
     Document(PList(<<nFast>>)),
     Document(PList(<<nStrPort, nWireguard>>)),
     Document(PList(<<nBadPort, nFast>>)) >>

RECURSIVE Extracted(_)
Extracted(rs) ==
  IF rs = <<>> THEN 0
  ELSE Len(fetch_and_process_url(Head(rs)).append) + Extracted(Tail(rs))

\* What an earlier run may have left in the file
OldFile == YamlDoc(<<nNoType>>)

\* main with at most MaxSources URLs that yield at most MaxNodes elements
Init ==
  /\ pc = "start"
  /\ \E n \in 0..MaxSources : \E f \in [1..n -> 1..Len(MainTable)] :
       /\ url_files = FilesWith(n)
       /\ responses = [i \in 1..n |-> MainTable[f[i]]]
       /\ Extracted(responses) <= MaxNodes
  /\ file \in {NoFile, OldFile}
  /\ urls = <<>>
  /\ requests = <<>>
  /\ ftask = <<>>
  /\ merged_proxies = <<>>
  /\ origin = <<>>
  /\ saveFailed = FALSE
  /\ log = NoLog
  /\ proxies = <<>>
  /\ cursor = 1
  /\ ptask = <<>>
  /\ result = <<>>
  /\ connects = <<>>
  /\ probes = <<>>
  /\ rerun = NoRerun
  /\ available_proxies = <<>>
  /\ tcp_in = NoCall
  /\ tcp_out = NoCall

Spec == Init /\ [][Next]_vars

\* Every request and every connect returns, and every thread that can take a
\* step takes it at some time
SpecLive == Spec /\ WF_vars(Next)

\* ==================================================================== claims
\* A response that is a document with a top-level "proxies" sequence, and the
\* number of nodes such a source yields (a source of any other kind yields none)
WellShaped(r) == r.fetch = "ok" /\ r.yaml = "map" /\ r.proxies.t = "list"
NodeCount(r) == IF WellShaped(r) THEN Len(r.proxies.items) ELSE 0

RECURSIVE NodeTotal(_)
NodeTotal(rs) == IF rs = <<>> THEN 0 ELSE NodeCount(Head(rs)) + NodeTotal(Tail(rs))

Kept(i) == \E k \in 1..Len(available_proxies) : available_proxies[k] = i

\* C1: once process_urls has returned, merged_proxies lists the nodes in source
\* input order and, within one source, in document order, whatever the order in
\* which the fetch tasks completed.
C1_SourceInputOrder ==
  pc = "fetched" =>
    \A a, b \in 1..Len(origin) :
      a < b => \/ origin[a].src < origin[b].src
               \/ origin[a].src = origin[b].src /\ origin[a].pos < origin[b].pos

\* C2: once process_urls has returned, merged_proxies holds exactly the nodes of
\* the sources that were fetched and decoded to a "proxies" sequence, each once
\* per extraction: its length is the sum of their node counts and a failed source
\* contributes nothing.
C2_ExactlyTheExtractedNodes ==
  pc = "fetched" =>
    /\ Len(merged_proxies) = NodeTotal(responses)
    /\ \A i \in DOMAIN responses : \A k \in 1..NodeCount(responses[i]) :
         Cardinality({a \in 1..Len(origin) :
                        /\ origin[a] = [src |-> i, pos |-> k]
                        /\ merged_proxies[a] = responses[i].proxies.items[k]}) = 1

\* Behind C2: the nodes of every well-shaped source are in merged_proxies, each
\* exactly once, for every interleaving (what C2 says when no source has a
\* "proxies" value that is a string or a mapping).
WellShapedSourcesKept ==
  pc = "fetched" =>
    \A i \in DOMAIN responses : \A k \in 1..NodeCount(responses[i]) :
      Cardinality({a \in 1..Len(origin) :
                     /\ origin[a] = [src |-> i, pos |-> k]
                     /\ merged_proxies[a] = responses[i].proxies.items[k]}) = 1

\* C3: the list check_proxies_availability returns holds exactly the nodes whose
\* probe result is reachable with MIN_LATENCY_THRESHOLD <= latency <=
\* LATENCY_THRESHOLD, both ends included.
C3_FilterKeepsExactlyTheWindow ==
  pc = "returned" =>
    \A i \in 1..Len(proxies) :
      Kept(i) <=>
        /\ ptask[i] = "collected"
        /\ ~result[i].raised
        /\ result[i].avail
        /\ result[i].latency.some
        /\ MIN_LATENCY_THRESHOLD * result[i].latency.val.den <= result[i].latency.val.num
        /\ result[i].latency.val.num <= LATENCY_THRESHOLD * result[i].latency.val.den

\* C3 witness: the call has returned, a node measured at exactly 1 ms and a node
\* measured at exactly 30 ms are both in the list.
C3_Witness ==
  /\ pc = "returned"
  /\ \E i, j \in 1..Len(proxies) :
       /\ Kept(i) /\ result[i].latency.val.num = result[i].latency.val.den
       /\ Kept(j) /\ result[j].latency.val.num = 30 * result[j].latency.val.den

\* C4: the list check_proxies_availability returns keeps the surviving nodes in
\* the order they have in the input list.
C4_StableFilter ==
  pc = "returned" =>
    \A a, b \in 1..Len(available_proxies) :
      a < b => available_proxies[a] < available_proxies[b]

\* C5: an error in the handling of one node does not stop the work on the others:
\* when check_proxies_availability ends, every node that has a server and a port
\* that parses has been probed and its result filtered.
C5_SiblingsStillProbed ==
  pc \in {"returned", "raised"} =>
    \A i \in 1..Len(proxies) :
      ( /\ proxies[i].kind = "map"
        /\ Truthy(Get(proxies[i].server))
        /\ Truthy(Get(proxies[i].port))
        /\ IntOf(Get(proxies[i].port)).ok )
      => ptask[i] = "collected"

\* C6: for a node whose type is one of the skip-set (compared in lower case, as
\* the code compares it) no connect is ever attempted, its probe result is
\* reachable = false with no latency, and it is never in the filtered list.
C6_SkipSetNeverConnected ==
  \A i \in 1..Len(proxies) :
    ( /\ proxies[i].kind = "map"
      /\ proxies[i].type.t = "str"
      /\ Lower(proxies[i].type.s) \in
           {"hysteria", "hysteria2", "hy2", "tuic", "wireguard", "juicity"} )
    => /\ connects[i] = 0
       /\ ~Kept(i)
       /\ ptask[i] \in {"done", "collected"} =>
            ~result[i].raised /\ ~result[i].avail /\ ~result[i].latency.some

\* C6 witness: a wireguard node has been through the pool and the filter.
C6_Witness ==
  /\ pc = "returned"
  /\ \E i \in 1..Len(proxies) :
       /\ proxies[i].kind = "map"
       /\ proxies[i].type = PyStr("wireguard")
       /\ ptask[i] = "collected"

RatZero == Rat(0, 1)
SampleOf(o) == IF o.res = "ok" THEN o.lat ELSE RatZero

C8_UnprobeableNeverSubmitted ==
  \A i \in 1..Len(proxies) :
    ( \/ proxies[i].kind # "map"
      \/ proxies[i].server.t \in {"absent", "none"}
      \/ proxies[i].port.t \in {"absent", "none"}
      \/ ~IntOf(proxies[i].port).ok )
    => ptask[i] = "none" /\ connects[i] = 0 /\ ~Kept(i)

\* C8 witness: the call has returned, a node without a server was passed over
\* and another node was probed and kept.
C8_Witness ==
  /\ pc = "returned"
  /\ \E i, j \in 1..Len(proxies) :
       /\ proxies[i].kind = "map" /\ proxies[i].server.t = "absent"
       /\ ptask[i] = "none"
       /\ ptask[j] = "collected" /\ Kept(j)

\* C9: a save_yaml that fails is fatal for the run: after it, main does not end
\* as a normal run.
C9_FailedWriteIsFatal == saveFailed => pc # "done"

\* C10: a fetched text that is not a document with a top-level "proxies"
\* sequence adds no element to merged_proxies.
C10_OtherShapesAddNothing ==
  \A i \in DOMAIN responses :
    ~WellShaped(responses[i]) => \A a \in 1..Len(origin) : origin[a].src # i

\* ------------------------------------------------------------------ C11
Ended == pc \in {"done", "crashed"}

\* C11: every run of main calls save_yaml at least once; a run in which no
\* source yields a node ends normally with the file holding an empty proxies
\* list, the warning logged and no probe started.
C11_EmptyRunWritesEmptyList ==
  Ended =>
    /\ log.saves >= 1
    /\ NodeTotal(responses) = 0 =>
         /\ pc = "done"
         /\ file = YamlDoc(<<>>)
         /\ log.warned
         /\ proxies = <<>>

\* The same for the runs in which nothing was collected and every write went
\* through
C11_WhenTheWriteSucceeds ==
  (Ended /\ merged_proxies = <<>> /\ ~saveFailed) =>
    /\ log.saves >= 1
    /\ pc = "done"
    /\ file = YamlDoc(<<>>)
    /\ log.warned
    /\ proxies = <<>>

\* ------------------------------------------------------------------ C12
\* C12: a second call of check_proxies_availability on the same list, with the
\* same result for every probe, returns the list the first call returned,
\* whatever the order in which the probes complete.  The lists are compared
\* node by node.
NodesAt(idx) == [k \in 1..Len(idx) |-> proxies[idx[k]]]

C12_SameListBothTimes ==
  (pc = "returned" /\ rerun.on) => NodesAt(available_proxies) = NodesAt(rerun.first)

\* The two lists hold the same nodes
C12_SameNodesBothTimes ==
  (pc = "returned" /\ rerun.on) =>
    \A i \in 1..Len(proxies) :
      Kept(i) <=> \E k \in 1..Len(rerun.first) : rerun.first[k] = i

\* ------------------------------------------------------------------ C13
\* C13: no step of check_proxies_availability writes a node of the list it was
\* given, and the list it builds holds only elements of that list, each
\* occurrence at most once.
C13_NodesNeverWritten ==
  [][ /\ proxies' = proxies
      /\ \A k \in 1..Len(available_proxies') :
           available_proxies'[k] \in 1..Len(proxies)
      /\ \A a, b \in 1..Len(available_proxies') :
           a # b => available_proxies'[a] # available_proxies'[b] ]_vars

\* C13 witness: the call has returned; of two nodes with pass-through fields
\* one was kept and one was probed and dropped.
C13_Witness ==
  /\ pc = "returned"
  /\ \E i, j \in 1..Len(proxies) :
       /\ proxies[i].kind = "map" /\ proxies[i].extra.t = "str" /\ Kept(i)
       /\ proxies[j].kind = "map" /\ proxies[j].extra.t = "str"
       /\ ptask[j] = "collected" /\ connects[j] = ATTEMPTS /\ ~Kept(j)

\* ------------------------------------------------------------------ C14
\* The URLs of the files that exist, file by file: of each file the lines that
\* are kept, stripped
RECURSIVE UrlsOfExisting(_)
UrlsOfExisting(files) ==
  IF files = <<>> THEN <<>>
  ELSE (IF Head(files).exists THEN StripLines(splitlines(Head(files).text))
        ELSE <<>>) \o UrlsOfExisting(Tail(files))

Submitted == pc \notin {"start", "listed"}

\* C14: a list file that does not exist is passed over and the run goes on:
\* once the tasks are submitted there is one task for every URL of every listed
\* file that exists, the files before and after a missing one alike.
C14_MissingFileSkipped ==
  Submitted =>
    /\ urls = UrlsOfExisting(url_files)
    /\ DOMAIN ftask = 1..Len(urls)
    /\ \A i \in DOMAIN ftask : ftask[i] # "none"

\* C14 witness: the first of two listed files is missing, the second holds two
\* URLs, and both are submitted.
C14_Witness ==
  /\ Submitted
  /\ Len(url_files) = 2
  /\ ~url_files[1].exists
  /\ url_files[2] = FileTable[2]
  /\ urls = << <<"u">>, <<"v">> >>
  /\ DOMAIN ftask = 1..2

\* ------------------------------------------------------------------ C15
\* C15: no fetch task is submitted for a URL that is empty or starts with "#".
C15_NoBlankNoComment ==
  Submitted =>
    \A i \in DOMAIN ftask : urls[i] # <<>> /\ ~startswith(urls[i], "#")

\* ------------------------------------------------------------------ C16
AllFetched == \A i \in DOMAIN ftask : ftask[i] \in {"done", "raised"}
ProbeBegun == \E i \in DOMAIN ptask : ptask[i] # "none"

\* C16: when the first probe task is submitted, and from then on, every fetch
\* task of the run has completed, and merged_proxies is not extended any more.
C16_PhasesSequential ==
  [][ /\ ProbeBegun' => AllFetched'
      /\ ProbeBegun => merged_proxies' = merged_proxies ]_vars

\* C16 witness: two fetch tasks have completed and added two nodes, and a
\* connect has been made for one of them.
C16_Witness ==
  /\ Len(ftask) = 2
  /\ AllFetched
  /\ Len(merged_proxies) = 2
  /\ \E i \in DOMAIN connects : connects[i] = ATTEMPTS

\* ------------------------------------------------------------------ C17
\* C17: at every moment the items one source has added to merged_proxies are
\* all of its items, unchanged, next to each other and in document order.
C17_ContiguousRuns ==
  /\ Len(origin) = Len(merged_proxies)
  /\ \A a \in 1..Len(origin) :
       LET o == origin[a]
           items == fetch_and_process_url(responses[o.src]).append
       IN /\ o.pos \in 1..Len(items)
          /\ merged_proxies[a] = items[o.pos]
          /\ o.pos > 1 =>
               a > 1 /\ origin[a - 1] = [src |-> o.src, pos |-> o.pos - 1]
          /\ o.pos < Len(items) =>
               a < Len(origin) /\ origin[a + 1] = [src |-> o.src, pos |-> o.pos + 1]

\* C17 witness: two sources of two nodes each were fetched at the same time and
\* the second one added its nodes first.
C17_Witness ==
  /\ pc = "fetched"
  /\ Len(origin) = 4
  /\ origin[1].src = 2
  /\ origin[3].src = 1

\* ------------------------------------------------------------------ C18
\* C18: at no moment are more than 10 requests in flight in the fetch phase or
\* more than 10 probes in the probe phase, also when there are more URLs or
\* nodes than that.
C18_AtMostTenInFlight ==
  /\ Cardinality(Running(ftask)) <= 10
  /\ Cardinality(Running(ptask)) <= 10

\* C18 witness: ten requests are in flight and an eleventh URL waits in the
\* queue.
C18_Witness ==
  /\ Cardinality(Running(ftask)) = 10
  /\ \E i \in DOMAIN ftask : ftask[i] = "queued"

\* ... and the same in the probe phase
C18_WitnessProbe ==
  /\ Cardinality(Running(ptask)) = 10
  /\ \E i \in DOMAIN ptask : ptask[i] = "queued"

\* ------------------------------------------------------------------ C19
\* C19: when main has ended, by a return or by an exception, every node in the
\* output file is a node that was probed in this run and found reachable with
\* a latency inside the window.
C19_FileHoldsOnlyFilteredNodes ==
  Ended =>
    \A k \in 1..Len(file.proxies) :
      \E i \in 1..Len(proxies) :
        /\ file.proxies[k] = proxies[i]
        /\ Kept(i)
        /\ InWindow(result[i])

\* The same for the runs that return with every write gone through
C19_WhenMainReturnsAndWrites ==
  (pc = "done" /\ ~saveFailed) =>
    /\ file.state = "doc"
    /\ \A k \in 1..Len(file.proxies) :
         \E i \in 1..Len(proxies) :
           file.proxies[k] = proxies[i] /\ Kept(i) /\ InWindow(result[i])

\* A run that ends with the unfiltered list on disk: the list was written, a
\* port that does not parse ended check_proxies_availability and main
C19_UnfilteredLeft ==
  /\ pc = "crashed"
  /\ ~saveFailed
  /\ file = YamlDoc(<<nBadPort, nFast>>)
  /\ available_proxies = <<>>

\* ------------------------------------------------------------------ C20
OnceEach ==
  /\ DOMAIN requests = 1..Len(urls)
  /\ \A i \in DOMAIN requests : requests[i] = 1
  /\ \A i \in DOMAIN ptask : ptask[i] # "none" => probes[i] = 1

\* C20: every run of main comes to an end, and when it has, one request has been
\* sent for each URL of the list and tcp_connection_test has run once for each
\* node submitted to the pool.
C20_TerminatesWithoutRetry == <>Ended /\ [](Ended => OnceEach)

\* C20 witness: main has returned after a request that failed and a probe that
\* found its node unreachable in all three attempts, each made once.
C20_Witness ==
  /\ pc = "done"
  /\ \E i \in DOMAIN requests :
       responses[i].fetch = "request_exception" /\ requests[i] = 1
  /\ \E j \in DOMAIN ptask :
       /\ ptask[j] = "collected" /\ probes[j] = 1
       /\ connects[j] = ATTEMPTS /\ ~result[j].avail

====
